---- MODULE Spec2Model ----
(***************************************************************************)
(* A model of the GitHub fetch client (Client.FetchIssues,                 *)
(* Client.FetchIssueEvents, Client.limitsCheckAndWait), of the event       *)
(* matchers (package event: And, Or, Not, Actor, AddLabel, CreatedAfter,   *)
(* CreatedBefore, FindEvent) and of the leaf matchers of package matchers. *)
(*                                                                         *)
(* Go values are modelled as follows.  A pointer or an optional field is   *)
(* None (nil) or Some(v).  A slice is a record [isNil, elems].  A string   *)
(* whose characters matter (logins, label names, tokens) is a sequence of  *)
(* one-character strings.  A time is an integer number of seconds.  A call *)
(* that dereferences nil has the outcome Panic.                            *)
(***************************************************************************)
EXTENDS Integers, Sequences, FiniteSets, TLC

VARIABLES
    cfg,            \* Client.Token, Client.TokenFile and the token file on disk
    githubClient,   \* Client.githubClient, the memoized handle
    op,             \* which operation the caller invoked
    latest,         \* FetchIssueEvents' argument (*int)
    pc,             \* position inside the running operation
    optPage,        \* opt.ListOptions.Page / opt.Page
    all,            \* allIssues / allEvents
    ret,            \* the value returned to the caller (read when pc = "done")
    slept,          \* argument of the most recent time.Sleep call
    pending,        \* the rate-limit check made since the last page request
    reqs,           \* history: page requests issued so far
    served,         \* history: successful responses of the service
    mcall,          \* matcher side: the call being evaluated
    mresult         \* matcher side: its outcome

fetchVars == <<cfg, githubClient, op, latest, pc, optPage, all, ret, slept,
               pending, reqs, served>>
matchVars == <<mcall, mresult>>
vars == <<cfg, githubClient, op, latest, pc, optPage, all, ret, slept,
          pending, reqs, served, mcall, mresult>>

-----------------------------------------------------------------------------
(* Go values *)

None == <<>>
Some(x) == <<x>>

NilSlice == [isNil |-> TRUE, elems |-> <<>>]
EmptySlice == [isNil |-> FALSE, elems |-> <<>>]

\* append(s, xs...): appending nothing returns s itself (nil stays nil).
GoAppend(s, xs) ==
    IF xs = <<>> THEN s ELSE [isNil |-> FALSE, elems |-> s.elems \o xs]

NoErr == "nil"
ErrReadFile == "ioutil.ReadFile failed"
ErrRequest == "request failed"
NoClient == "nil"

-----------------------------------------------------------------------------
(* Bounds and program constants *)

MaxReq == 3         \* page requests issued by one fetch
MaxPage == 2        \* largest NextPage the service reports

tokenLimit == 50
Minute == 60
Second == 1
FirstPage == 0      \* the zero value of ListOptions.Page: the first page

\* What one page of the service may hold (issue numbers / event IDs).
PageBodies == {<<>>, <<1>>, <<2, 1>>}
EventIDs == {1, 2}

\* time.Now() as read by limitsCheckAndWait, and the Reset times reported.
Clock == {100}
ResetTimes == {95, 107}
Remainings == {0, 49, 50, 51}

Rates == [Remaining : Remainings, Reset : ResetTimes]
\* *github.RateLimits: nil, or a value whose Core is nil or a Rate.
LimitValues == {None} \cup {Some([Core |-> c]) : c \in {None} \cup {Some(r) : r \in Rates}}

\* Client configurations: a literal token, a token file (readable or not,
\* its content surrounded by whitespace), or neither.
Configs == {
    [Token |-> <<"t">>, TokenFile |-> <<>>, readable |-> FALSE, data |-> <<>>],
    [Token |-> <<>>, TokenFile |-> <<"f">>, readable |-> TRUE, data |-> <<" ", "t", "\n">>],
    [Token |-> <<>>, TokenFile |-> <<"f">>, readable |-> FALSE, data |-> <<>>],
    [Token |-> <<>>, TokenFile |-> <<>>, readable |-> FALSE, data |-> <<>>] }

-----------------------------------------------------------------------------
(* Client.getGithubClient *)

IsSpace(c) == c \in {" ", "\n", "\t", "\r"}

RECURSIVE TrimLeft(_)
TrimLeft(s) ==
    IF s # <<>> /\ IsSpace(Head(s)) THEN TrimLeft(Tail(s)) ELSE s

RECURSIVE TrimRight(_)
TrimRight(s) ==
    IF s # <<>> /\ IsSpace(s[Len(s)]) THEN TrimRight(SubSeq(s, 1, Len(s) - 1)) ELSE s

TrimSpace(s) == TrimRight(TrimLeft(s))

\* The handle and error getGithubClient returns in the current state; a
\* non-nil handle is also what it stores in client.githubClient.
getGithubClient ==
    IF githubClient # NoClient
    THEN [client |-> githubClient, err |-> NoErr]
    ELSE LET fromFile == Len(cfg.Token) = 0 /\ Len(cfg.TokenFile) # 0
         IN IF fromFile /\ ~cfg.readable
            THEN [client |-> NoClient, err |-> ErrReadFile]
            ELSE LET token == IF fromFile THEN TrimSpace(cfg.data) ELSE cfg.Token
                 IN [client |-> IF Len(token) > 0 THEN "authenticated"
                                                  ELSE "unauthenticated",
                     err |-> NoErr]

-----------------------------------------------------------------------------
(* Client.limitsCheckAndWait *)

\* The duration handed to time.Sleep, from getGithubClient's error, the
\* RateLimits error, the limits returned and the clock reading.
LimitsSleep_Inclusive(gerr, perr, limits, t) ==
    IF gerr # NoErr
    THEN Minute
    ELSE LET afterErr == IF perr THEN Minute ELSE 0
         IN IF limits # None /\ limits[1].Core # None
               /\ limits[1].Core[1].Remaining <= tokenLimit
            THEN limits[1].Core[1].Reset - t
            ELSE afterErr

LimitsSleep(gerr, perr, limits, t) ==
    IF gerr # NoErr
    THEN Minute
    ELSE LET afterErr == IF perr THEN Minute ELSE 0
         IN IF limits # None /\ limits[1].Core # None
               /\ limits[1].Core[1].Remaining < tokenLimit
            THEN limits[1].Core[1].Reset - t
            ELSE afterErr

\* RateLimits() returns (limits, _, err): the error and the limits are
\* independent results of the library call, and the code tests both.
limitsCheckAndWait ==
    /\ pc = "check"
    /\ \E perr \in BOOLEAN, limits \in LimitValues, t \in Clock :
          LET g == getGithubClient
              sleep == LimitsSleep(g.err, perr, limits, t)
          IN /\ githubClient' = g.client
             /\ slept' = sleep
             /\ pending' = Some([err |-> perr, limits |-> limits,
                                 now |-> t, sleep |-> sleep])
    /\ pc' = "request"
    /\ UNCHANGED <<cfg, op, latest, optPage, all, ret, reqs, served, matchVars>>

-----------------------------------------------------------------------------
(* Client.FetchIssues *)

\* The entry of either fetch: getGithubClient, and the early return on its
\* error.
FetchStart(which) ==
    /\ pc = "start"
    /\ op = which
    /\ LET g == getGithubClient
       IN /\ githubClient' = g.client
          /\ IF g.err # NoErr
             THEN /\ ret' = [val |-> NilSlice, err |-> g.err]
                  /\ pc' = "done"
             ELSE /\ ret' = ret
                  /\ pc' = "check"
    /\ UNCHANGED <<cfg, op, latest, optPage, all, slept, pending, reqs,
                   served, matchVars>>

FetchIssuesStart == FetchStart("FetchIssues")

\* One ListByRepo call and what the loop body does with its outcome.
\* err: the call failed; issues, next: the page and resp.NextPage otherwise.
IssuesPage_Partial(err, issues, next) ==
    /\ reqs' = Append(reqs, [page |-> optPage, ok |-> ~err,
                             checked |-> pending # None])
    /\ pending' = None
    /\ IF err
       THEN /\ ret' = [val |-> all, err |-> ErrRequest]
            /\ pc' = "done"
            /\ UNCHANGED <<all, served, optPage>>
       ELSE /\ all' = GoAppend(all, issues)
            /\ served' = Append(served, [items |-> issues, next |-> next])
            /\ IF next = 0
               THEN /\ pc' = "done"
                    /\ ret' = [val |-> all', err |-> NoErr]
                    /\ optPage' = optPage
               ELSE /\ optPage' = next
                    /\ pc' = "check"
                    /\ ret' = ret

IssuesPage_Prepend(err, issues, next) ==
    /\ reqs' = Append(reqs, [page |-> optPage, ok |-> ~err,
                             checked |-> pending # None])
    /\ pending' = None
    /\ IF err
       THEN /\ ret' = [val |-> NilSlice, err |-> ErrRequest]
            /\ pc' = "done"
            /\ UNCHANGED <<all, served, optPage>>
       ELSE /\ all' = [isNil |-> FALSE, elems |-> issues \o all.elems]
            /\ served' = Append(served, [items |-> issues, next |-> next])
            /\ IF next = 0
               THEN /\ pc' = "done"
                    /\ ret' = [val |-> all', err |-> NoErr]
                    /\ optPage' = optPage
               ELSE /\ optPage' = next
                    /\ pc' = "check"
                    /\ ret' = ret

IssuesPage(err, issues, next) ==
    /\ reqs' = Append(reqs, [page |-> optPage, ok |-> ~err,
                             checked |-> pending # None])
    /\ pending' = None
    /\ IF err
       THEN /\ ret' = [val |-> NilSlice, err |-> ErrRequest]
            /\ pc' = "done"
            /\ UNCHANGED <<all, served, optPage>>
       ELSE /\ all' = GoAppend(all, issues)
            /\ served' = Append(served, [items |-> issues, next |-> next])
            /\ IF next = 0
               THEN /\ pc' = "done"
                    /\ ret' = [val |-> all', err |-> NoErr]
                    /\ optPage' = optPage
               ELSE /\ optPage' = next
                    /\ pc' = "check"
                    /\ ret' = ret

FetchIssuesRequest ==
    /\ pc = "request"
    /\ op = "FetchIssues"
    /\ Len(reqs) < MaxReq
    /\ \/ IssuesPage(TRUE, <<>>, 0)
       \/ \E issues \in PageBodies, next \in 0..MaxPage :
             IssuesPage(FALSE, issues, next)
    /\ UNCHANGED <<cfg, githubClient, op, latest, slept, matchVars>>

-----------------------------------------------------------------------------
(* wasIdFound, Client.FetchIssueEvents *)

wasIdFound(events, id) == \E i \in 1..Len(events) : events[i] = id

FetchIssueEventsStart == FetchStart("FetchIssueEvents")

\* One ListRepositoryEvents call and what the loop body does with its outcome.
EventsPage_Abort(err, events, next) ==
    /\ reqs' = Append(reqs, [page |-> optPage, ok |-> ~err,
                             checked |-> pending # None])
    /\ pending' = None
    /\ IF err
       THEN /\ ret' = [val |-> NilSlice, err |-> ErrRequest]
            /\ pc' = "done"
            /\ UNCHANGED <<all, served, optPage, slept>>
       ELSE /\ all' = GoAppend(all, events)
            /\ served' = Append(served, [items |-> events, next |-> next])
            /\ pc' = "done"
            /\ ret' = [val |-> all', err |-> NoErr]
            /\ UNCHANGED <<optPage, slept>>

EventsPage(err, events, next) ==
    /\ reqs' = Append(reqs, [page |-> optPage, ok |-> ~err,
                             checked |-> pending # None])
    /\ pending' = None
    /\ IF err
       THEN \* sleep a second, continue: back to the top of the loop
            /\ slept' = Second
            /\ pc' = "check"
            /\ UNCHANGED <<all, served, optPage, ret>>
       ELSE /\ all' = GoAppend(all, events)
            /\ served' = Append(served, [items |-> events, next |-> next])
            /\ IF next = 0 \/ (latest # None /\ wasIdFound(events, latest[1]))
               THEN \* break
                    /\ pc' = "done"
                    /\ ret' = [val |-> all', err |-> NoErr]
               ELSE \* the unconditional break that follows the test; the
                    \* assignment opt.Page = resp.NextPage is never reached
                    /\ pc' = "done"
                    /\ ret' = [val |-> all', err |-> NoErr]
            /\ UNCHANGED <<optPage, slept>>

FetchIssueEventsRequest ==
    /\ pc = "request"
    /\ op = "FetchIssueEvents"
    /\ Len(reqs) < MaxReq
    /\ \/ EventsPage(TRUE, <<>>, 0)
       \/ \E events \in PageBodies, next \in 0..MaxPage :
             EventsPage(FALSE, events, next)
    /\ UNCHANGED <<cfg, githubClient, op, latest, matchVars>>

-----------------------------------------------------------------------------
(* The fetch specification: a caller invokes one operation on a fresh Client *)

MatchIdle == [kind |-> "idle"]

InitFetch ==
    /\ cfg \in Configs
    /\ githubClient = NoClient
    /\ \/ op = "FetchIssues" /\ latest = None
       \/ op = "FetchIssueEvents" /\ latest \in {None} \cup {Some(i) : i \in EventIDs}
    /\ pc = "start"
    /\ optPage = FirstPage
    /\ all = NilSlice
    /\ ret = [val |-> NilSlice, err |-> NoErr]
    /\ slept = 0
    /\ pending = None
    /\ reqs = <<>>
    /\ served = <<>>
    /\ mcall = MatchIdle
    /\ mresult = MatchIdle

NextFetch ==
    \/ FetchIssuesStart
    \/ FetchIssueEventsStart
    \/ limitsCheckAndWait
    \/ FetchIssuesRequest
    \/ FetchIssueEventsRequest

SpecFetch == InitFetch /\ [][NextFetch]_vars

-----------------------------------------------------------------------------
(* Properties of the fetch operations *)

RECURSIVE Flatten(_)
Flatten(pages) ==
    IF pages = <<>> THEN <<>> ELSE Head(pages).items \o Flatten(Tail(pages))

AllOk == \A i \in 1..Len(reqs) : reqs[i].ok
LastServed == served[Len(served)]

\* C1: FetchIssueEvents returns only after a page that reports no next page,
\* or (latest non-nil) a page holding the event latest names; what it
\* returns is the concatenation of the pages fetched up to that one.
C1_EventsStopOnlyAtLastPage ==
    (op = "FetchIssueEvents" /\ pc = "done" /\ ret.err = NoErr) =>
        /\ served # <<>>
        /\ \/ LastServed.next = 0
           \/ latest # None /\ wasIdFound(LastServed.items, latest[1])
        /\ ret.val.elems = Flatten(served)

\* C2: with no failed request, FetchIssues asks for the first page, then for
\* exactly the page each response reported as next, goes on while a next
\* page is reported, and returns the pages' concatenation in service order.
C2_FetchIssuesAllPages ==
    (op = "FetchIssues" /\ AllOk /\ reqs # <<>>) =>
        /\ Len(served) = Len(reqs)
        /\ reqs[1].page = FirstPage
        /\ \A i \in 1..(Len(reqs) - 1) :
              served[i].next # 0 /\ reqs[i + 1].page = served[i].next
        /\ all.elems = Flatten(served)
        /\ pc = "done" =>
              /\ LastServed.next = 0
              /\ ret.err = NoErr
              /\ ret.val.elems = Flatten(served)
        /\ pc # "done" =>
              /\ LastServed.next # 0
              /\ optPage = LastServed.next

C2_Witness ==
    /\ op = "FetchIssues" /\ pc = "done" /\ ret.err = NoErr
    /\ Len(reqs) = 2 /\ reqs[1].page = FirstPage /\ reqs[2].page = 2
    /\ served[1].items = <<1>> /\ served[2].items = <<2, 1>>
    /\ ret.val.elems = <<1, 2, 1>>

\* C3: a failed page request ends FetchIssues at once with that error and a
\* nil list; the failed request is the last one and nothing fetched before
\* it is returned.
C3_FetchIssuesAbortsOnError ==
    (op = "FetchIssues" /\ ~AllOk) =>
        /\ pc = "done"
        /\ ret = [val |-> NilSlice, err |-> ErrRequest]
        /\ \A i \in 1..Len(reqs) : reqs[i].ok <=> i < Len(reqs)

C3_Witness ==
    /\ op = "FetchIssues" /\ pc = "done"
    /\ Len(reqs) = 3 /\ reqs[1].ok /\ reqs[2].ok /\ ~reqs[3].ok
    /\ all.elems = <<2, 1, 1>>
    /\ ret.val.isNil /\ ret.err = ErrRequest

\* C4: a failed page request of FetchIssueEvents is followed by a request
\* for the same page, however many have failed; a failure adds no event;
\* once the handle is obtained the operation returns no error, and returns
\* only after a request succeeded.
C4_EventsRetrySamePage ==
    op = "FetchIssueEvents" =>
        /\ \A i \in 1..Len(reqs) :
              ~reqs[i].ok =>
                  IF i < Len(reqs)
                  THEN reqs[i + 1].page = reqs[i].page
                  ELSE pc \in {"check", "request"} /\ optPage = reqs[i].page
        /\ all.elems = Flatten(served)
        /\ Len(served) = Cardinality({i \in 1..Len(reqs) : reqs[i].ok})
        /\ (pc = "done" /\ githubClient # NoClient) =>
              /\ ret.err = NoErr
              /\ reqs # <<>> /\ reqs[Len(reqs)].ok

C4_Witness ==
    /\ op = "FetchIssueEvents" /\ pc = "done"
    /\ Len(reqs) = 3 /\ ~reqs[1].ok /\ ~reqs[2].ok /\ reqs[3].ok
    /\ ret.err = NoErr /\ ret.val.elems = <<2, 1>>

\* C5: every page request, retries included, has its own rate-limit check,
\* made after the previous request; when the probe succeeds and reports a
\* core quota, the client sleeps until the reset time exactly when the
\* remaining quota is below 50, and does not sleep otherwise.
C5_CheckBeforeEveryRequest ==
    /\ \A i \in 1..Len(reqs) : reqs[i].checked
    /\ pc = "request" <=> pending # None
    /\ pending # None =>
          LET c == pending[1]
          IN /\ slept = c.sleep
             /\ (~c.err /\ c.limits # None /\ c.limits[1].Core # None) =>
                   LET core == c.limits[1].Core[1]
                   IN IF core.Remaining < 50
                      THEN c.now + c.sleep = core.Reset
                      ELSE c.sleep = 0

C5_Witness ==
    /\ op = "FetchIssueEvents" /\ pc = "request"
    /\ Len(reqs) = 2 /\ ~reqs[1].ok /\ ~reqs[2].ok
    /\ pending # None /\ ~pending[1].err
    /\ pending[1].limits = Some([Core |-> Some([Remaining |-> 49, Reset |-> 107])])
    /\ slept = 7

\* C6: when the rate-limit probe fails the fetch goes on to the page request
\* after a sleep of one minute, whatever limits came back with the error.
C6_ProbeFailureSleepsOneMinute ==
    (pending # None /\ pending[1].err) =>
        /\ pc = "request"
        /\ pending[1].sleep = Minute
        /\ slept = Minute

-----------------------------------------------------------------------------
(* Records: *github.IssueEvent, *github.IssueComment, *github.PullRequestComment *)

MaxChildren == 2    \* children of an And / Or
MaxEvents == 2      \* events handed to FindEvent

Bob == <<"B", "o", "b">>
bob == <<"b", "o", "b">>
al == <<"a", "l">>
kindBug == <<"k", "/", "b">>
bug == <<"b", "u", "g">>
kindPrefix == <<"k", "/">>

Times == {9, 10, 11}

Users == {None, Some([Login |-> None])}
         \cup {Some([Login |-> Some(l)]) : l \in {Bob, bob, al}}
Labels == {None, Some([Name |-> None])}
          \cup {Some([Name |-> Some(n)]) : n \in {kindBug, bug}}
EventTags == {None, Some("labeled"), Some("unlabeled")}
CreatedAts == {None} \cup {Some(t) : t \in Times}

IssueEvents == {None} \cup {Some(e) : e \in
    [Event : EventTags, Label : Labels, Actor : Users, CreatedAt : CreatedAts]}
IssueComments == {None} \cup {Some(c) : c \in [User : Users, CreatedAt : CreatedAts]}
PullRequestComments == IssueComments

-----------------------------------------------------------------------------
(* strings.ToLower, strings.HasPrefix *)

Uppers == <<"A", "B", "C", "D", "E", "F", "G", "H", "I", "J", "K", "L", "M",
            "N", "O", "P", "Q", "R", "S", "T", "U", "V", "W", "X", "Y", "Z">>
Lowers == <<"a", "b", "c", "d", "e", "f", "g", "h", "i", "j", "k", "l", "m",
            "n", "o", "p", "q", "r", "s", "t", "u", "v", "w", "x", "y", "z">>

LowerChar(c) ==
    IF \E i \in 1..Len(Uppers) : Uppers[i] = c
    THEN Lowers[CHOOSE i \in 1..Len(Uppers) : Uppers[i] = c]
    ELSE c

ToLower(str) == [i \in 1..Len(str) |-> LowerChar(str[i])]

HasPrefix(str, prefix) ==
    Len(prefix) <= Len(str) /\ SubSeq(str, 1, Len(prefix)) = prefix

-----------------------------------------------------------------------------
(* package matchers: the leaf matchers.  A matcher value is a record        *)
(* [type, s, t, kids]: s its string, t its time, kids its child matchers.   *)

M(type, str, t, kids) == [type |-> type, s |-> str, t |-> t, kids |-> kids]

CreatedAfter_MatchComment(c, comment) ==
    IF comment = None \/ comment[1].CreatedAt = None
    THEN FALSE
    ELSE comment[1].CreatedAt[1] > c.t

CreatedAfter_MatchEvent(c, event) ==
    IF event = None \/ event[1].CreatedAt = None
    THEN FALSE
    ELSE event[1].CreatedAt[1] > c.t

CreatedAfter_MatchReviewComment(c, review) ==
    IF review = None \/ review[1].CreatedAt = None
    THEN FALSE
    ELSE review[1].CreatedAt[1] > c.t

CreatedBefore_MatchComment(c, comment) ==
    IF comment = None \/ comment[1].CreatedAt = None
    THEN FALSE
    ELSE comment[1].CreatedAt[1] < c.t

CreatedBefore_MatchEvent(c, event) ==
    IF event = None \/ event[1].CreatedAt = None
    THEN FALSE
    ELSE event[1].CreatedAt[1] < c.t

CreatedBefore_MatchReviewComment(c, review) ==
    IF review = None \/ review[1].CreatedAt = None
    THEN FALSE
    ELSE review[1].CreatedAt[1] < c.t

ValidAuthor_MatchEvent(event) ==
    event # None /\ event[1].Actor # None /\ event[1].Actor[1].Login # None

ValidAuthor_MatchComment(comment) ==
    comment # None /\ comment[1].User # None /\ comment[1].User[1].Login # None

ValidAuthor_MatchReviewComment(review) ==
    review # None /\ review[1].User # None /\ review[1].User[1].Login # None

AuthorLogin_MatchEvent(a, event) ==
    IF ~ValidAuthor_MatchEvent(event)
    THEN FALSE
    ELSE ToLower(event[1].Actor[1].Login[1]) = ToLower(a.s)

AuthorLogin_MatchComment(a, comment) ==
    IF ~ValidAuthor_MatchComment(comment)
    THEN FALSE
    ELSE ToLower(comment[1].User[1].Login[1]) = ToLower(a.s)

AuthorLogin_MatchReviewComment(a, review) ==
    IF ~ValidAuthor_MatchReviewComment(review)
    THEN FALSE
    ELSE ToLower(review[1].User[1].Login[1]) = ToLower(a.s)

AddLabel_MatchEvent(event) ==
    IF event = None \/ event[1].Event = None
    THEN FALSE
    ELSE event[1].Event[1] = "labeled"

AddLabel_MatchComment(comment) == FALSE

AddLabel_MatchReviewComment(review) == FALSE

LabelPrefix_MatchEvent(l, event) ==
    IF event = None \/ event[1].Label = None \/ event[1].Label[1].Name = None
    THEN FALSE
    ELSE HasPrefix(event[1].Label[1].Name[1], l.s)

LabelPrefix_MatchComment(l, comment) == FALSE

LabelPrefix_MatchReviewComment(l, review) == FALSE

EventType_MatchEvent(event) == TRUE
EventType_MatchComment(comment) == FALSE
EventType_MatchReviewComment(review) == FALSE

CommentType_MatchEvent(event) == FALSE
CommentType_MatchComment(comment) == TRUE
CommentType_MatchReviewComment(review) == FALSE

ReviewCommentType_MatchEvent(event) == FALSE
ReviewCommentType_MatchComment(comment) == FALSE
ReviewCommentType_MatchReviewComment(review) == TRUE

\* The Matcher interface: dispatch on the matcher's dynamic type.
MatchEvent(m, event) ==
    CASE m.type = "CreatedAfter" -> CreatedAfter_MatchEvent(m, event)
      [] m.type = "CreatedBefore" -> CreatedBefore_MatchEvent(m, event)
      [] m.type = "ValidAuthor" -> ValidAuthor_MatchEvent(event)
      [] m.type = "AuthorLogin" -> AuthorLogin_MatchEvent(m, event)
      [] m.type = "AddLabel" -> AddLabel_MatchEvent(event)
      [] m.type = "LabelPrefix" -> LabelPrefix_MatchEvent(m, event)
      [] m.type = "EventType" -> EventType_MatchEvent(event)
      [] m.type = "CommentType" -> CommentType_MatchEvent(event)
      [] m.type = "ReviewCommentType" -> ReviewCommentType_MatchEvent(event)

MatchComment(m, comment) ==
    CASE m.type = "CreatedAfter" -> CreatedAfter_MatchComment(m, comment)
      [] m.type = "CreatedBefore" -> CreatedBefore_MatchComment(m, comment)
      [] m.type = "ValidAuthor" -> ValidAuthor_MatchComment(comment)
      [] m.type = "AuthorLogin" -> AuthorLogin_MatchComment(m, comment)
      [] m.type = "AddLabel" -> AddLabel_MatchComment(comment)
      [] m.type = "LabelPrefix" -> LabelPrefix_MatchComment(m, comment)
      [] m.type = "EventType" -> EventType_MatchComment(comment)
      [] m.type = "CommentType" -> CommentType_MatchComment(comment)
      [] m.type = "ReviewCommentType" -> ReviewCommentType_MatchComment(comment)

MatchReviewComment(m, review) ==
    CASE m.type = "CreatedAfter" -> CreatedAfter_MatchReviewComment(m, review)
      [] m.type = "CreatedBefore" -> CreatedBefore_MatchReviewComment(m, review)
      [] m.type = "ValidAuthor" -> ValidAuthor_MatchReviewComment(review)
      [] m.type = "AuthorLogin" -> AuthorLogin_MatchReviewComment(m, review)
      [] m.type = "AddLabel" -> AddLabel_MatchReviewComment(review)
      [] m.type = "LabelPrefix" -> LabelPrefix_MatchReviewComment(m, review)
      [] m.type = "EventType" -> EventType_MatchReviewComment(review)
      [] m.type = "CommentType" -> CommentType_MatchReviewComment(review)
      [] m.type = "ReviewCommentType" -> ReviewCommentType_MatchReviewComment(review)

LeafMatchers == {
    M("CreatedAfter", <<>>, 10, <<>>), M("CreatedBefore", <<>>, 10, <<>>),
    M("ValidAuthor", <<>>, 0, <<>>), M("AuthorLogin", Bob, 0, <<>>),
    M("AddLabel", <<>>, 0, <<>>), M("LabelPrefix", kindPrefix, 0, <<>>),
    M("EventType", <<>>, 0, <<>>), M("CommentType", <<>>, 0, <<>>),
    M("ReviewCommentType", <<>>, 0, <<>>) }

-----------------------------------------------------------------------------
(* package event: Match has one of three outcomes *)

Panic == "panic"
B(b) == IF b THEN "true" ELSE "false"

\* event.Actor is read first: a nil event is a nil dereference.
event_Actor_Match(a, event) ==
    IF event = None
    THEN Panic
    ELSE IF event[1].Actor = None \/ event[1].Actor[1].Login = None
         THEN "false"
         ELSE B(event[1].Actor[1].Login[1] = a.s)

event_AddLabel_Match(a, event) ==
    IF event = None
    THEN Panic
    ELSE IF event[1].Label = None \/ event[1].Label[1].Name = None
            \/ event[1].Event = None
         THEN "false"
         ELSE B(event[1].Event[1] = "labeled" \/ event[1].Label[1].Name[1] = a.s)

\* event.CreatedAt.After(...) dereferences event and then CreatedAt.
event_CreatedAfter_Match(c, event) ==
    IF event = None \/ event[1].CreatedAt = None
    THEN Panic
    ELSE B(event[1].CreatedAt[1] > c.t)

event_CreatedBefore_Match(c, event) ==
    IF event = None \/ event[1].CreatedAt = None
    THEN Panic
    ELSE B(event[1].CreatedAt[1] < c.t)

RECURSIVE event_Match(_, _)
RECURSIVE event_And_Match(_, _)
RECURSIVE event_Or_Match(_, _)

\* for each child in order: return false at the first that does not match
event_And_Match(kids, event) ==
    IF kids = <<>>
    THEN "true"
    ELSE LET r == event_Match(Head(kids), event)
         IN IF r = Panic THEN Panic
            ELSE IF r = "false" THEN "false"
            ELSE event_And_Match(Tail(kids), event)

\* for each child in order: return true at the first that matches
event_Or_Match(kids, event) ==
    IF kids = <<>>
    THEN "false"
    ELSE LET r == event_Match(Head(kids), event)
         IN IF r = Panic THEN Panic
            ELSE IF r = "true" THEN "true"
            ELSE event_Or_Match(Tail(kids), event)

event_Not_Match(n, event) ==
    LET r == event_Match(n.kids[1], event)
    IN IF r = Panic THEN Panic ELSE B(r = "false")

event_Match(m, event) ==
    CASE m.type = "event.And" -> event_And_Match(m.kids, event)
      [] m.type = "event.Or" -> event_Or_Match(m.kids, event)
      [] m.type = "event.Not" -> event_Not_Match(m, event)
      [] m.type = "event.Actor" -> event_Actor_Match(m, event)
      [] m.type = "event.AddLabel" -> event_AddLabel_Match(m, event)
      [] m.type = "event.CreatedAfter" -> event_CreatedAfter_Match(m, event)
      [] m.type = "event.CreatedBefore" -> event_CreatedBefore_Match(m, event)

\* FindEvent: the loop over events, matchingEvents being acc.
RECURSIVE FindEventLoop(_, _, _)
FindEventLoop(events, matcher, acc) ==
    IF events = <<>>
    THEN [panic |-> FALSE, val |-> acc]
    ELSE LET r == event_Match(matcher, Head(events))
         IN IF r = Panic
            THEN [panic |-> TRUE, val |-> NilSlice]
            ELSE FindEventLoop(Tail(events), matcher,
                               IF r = "true" THEN GoAppend(acc, <<Head(events)>>)
                                             ELSE acc)

FindEvent(events, matcher) == FindEventLoop(events, matcher, EmptySlice)

EventLeafs == {
    M("event.Actor", bob, 0, <<>>), M("event.AddLabel", bug, 0, <<>>),
    M("event.CreatedAfter", <<>>, 10, <<>>),
    M("event.CreatedBefore", <<>>, 10, <<>>) }
EventNots == {M("event.Not", <<>>, 0, <<M("event.Actor", bob, 0, <<>>)>>)}
EventChildren == EventLeafs \cup EventNots
ChildLists ==
    UNION {[1..n -> EventChildren] : n \in 0..MaxChildren}
EventMatchers ==
    EventChildren
    \cup {M("event.And", <<>>, 0, kids) : kids \in ChildLists}
    \cup {M("event.Or", <<>>, 0, kids) : kids \in ChildLists}

\* The events FindEvent is run on: a "labeled" event by bob, an event by al
\* with no label, an event with no creation time, and a nil pointer.
SampleEvents == {
    Some([Event |-> Some("labeled"), Label |-> Some([Name |-> Some(kindBug)]),
          Actor |-> Some([Login |-> Some(bob)]), CreatedAt |-> Some(11)]),
    Some([Event |-> None, Label |-> None,
          Actor |-> Some([Login |-> Some(al)]), CreatedAt |-> Some(9)]),
    Some([Event |-> Some("unlabeled"), Label |-> Some([Name |-> Some(bug)]),
          Actor |-> Some([Login |-> Some(bob)]), CreatedAt |-> None]),
    None }
EventLists == UNION {[1..n -> SampleEvents] : n \in 0..MaxEvents}

-----------------------------------------------------------------------------
(* The matcher specification: a caller makes one call *)

Call(kind, m, rec, evs) == [kind |-> kind, m |-> m, rec |-> rec, evs |-> evs]

InitMatch ==
    /\ \/ \E m \in LeafMatchers, e \in IssueEvents :
             mcall = Call("MatchEvent", m, e, <<>>)
       \/ \E m \in LeafMatchers, c \in IssueComments :
             mcall = Call("MatchComment", m, c, <<>>)
       \/ \E m \in LeafMatchers, c \in PullRequestComments :
             mcall = Call("MatchReviewComment", m, c, <<>>)
       \/ \E m \in EventMatchers, e \in IssueEvents :
             mcall = Call("event.Match", m, e, <<>>)
       \/ \E m \in EventMatchers, evs \in EventLists :
             mcall = Call("FindEvent", m, None, evs)
    /\ mresult = MatchIdle
    /\ cfg \in Configs /\ cfg.Token # <<>>
    /\ githubClient = NoClient
    /\ op = "none" /\ latest = None /\ pc = "idle"
    /\ optPage = FirstPage /\ all = NilSlice
    /\ ret = [val |-> NilSlice, err |-> NoErr]
    /\ slept = 0 /\ pending = None /\ reqs = <<>> /\ served = <<>>

Out(o) == [kind |-> "out", out |-> o]

CallMatchEvent ==
    /\ mresult = MatchIdle /\ mcall.kind = "MatchEvent"
    /\ mresult' = Out(B(MatchEvent(mcall.m, mcall.rec)))
    /\ UNCHANGED <<mcall, fetchVars>>

CallMatchComment ==
    /\ mresult = MatchIdle /\ mcall.kind = "MatchComment"
    /\ mresult' = Out(B(MatchComment(mcall.m, mcall.rec)))
    /\ UNCHANGED <<mcall, fetchVars>>

CallMatchReviewComment ==
    /\ mresult = MatchIdle /\ mcall.kind = "MatchReviewComment"
    /\ mresult' = Out(B(MatchReviewComment(mcall.m, mcall.rec)))
    /\ UNCHANGED <<mcall, fetchVars>>

CallEventMatch ==
    /\ mresult = MatchIdle /\ mcall.kind = "event.Match"
    /\ mresult' = Out(event_Match(mcall.m, mcall.rec))
    /\ UNCHANGED <<mcall, fetchVars>>

CallFindEvent ==
    /\ mresult = MatchIdle /\ mcall.kind = "FindEvent"
    /\ LET r == FindEvent(mcall.evs, mcall.m)
       IN mresult' = [kind |-> "found", panic |-> r.panic, val |-> r.val]
    /\ UNCHANGED <<mcall, fetchVars>>

NextMatch ==
    \/ CallMatchEvent
    \/ CallMatchComment
    \/ CallMatchReviewComment
    \/ CallEventMatch
    \/ CallFindEvent

SpecMatch == InitMatch /\ [][NextMatch]_vars

-----------------------------------------------------------------------------
(* Properties of the matchers *)

IsLeafCall ==
    mcall.kind \in {"MatchEvent", "MatchComment", "MatchReviewComment"}
    \/ (mcall.kind = "event.Match" /\ mcall.m \in EventLeafs)

OnEvent == mcall.kind \in {"MatchEvent", "event.Match"}

\* The record handed to the leaf matcher lacks a field that matcher reads.
AuthorOf(r) == IF OnEvent THEN r.Actor ELSE r.User
FieldAbsent(r) ==
    LET type == mcall.m.type
    IN \/ /\ type \in {"CreatedAfter", "CreatedBefore",
                       "event.CreatedAfter", "event.CreatedBefore"}
          /\ r.CreatedAt = None
       \/ /\ type \in {"ValidAuthor", "AuthorLogin", "event.Actor"}
          /\ (AuthorOf(r) = None \/ AuthorOf(r)[1].Login = None)
       \/ /\ type \in {"AddLabel", "event.AddLabel"} /\ OnEvent
          /\ r.Event = None
       \/ /\ type \in {"LabelPrefix", "event.AddLabel"} /\ OnEvent
          /\ (r.Label = None \/ r.Label[1].Name = None)

\* C7: a leaf matcher given an absent record, or a record lacking a field
\* the matcher reads, returns false: it neither matches nor fails.
C7_LeafFailsClosed ==
    (mresult.kind = "out" /\ IsLeafCall
        /\ (mcall.rec = None \/ FieldAbsent(mcall.rec[1])))
    => mresult.out = "false"

KidMatches(i) == event_Match(mcall.m.kids[i], mcall.rec) = "true"

\* C8: And matches exactly when every child matches, Or exactly when at
\* least one child matches (so And of no child matches every record and Or
\* of no child matches none).
C8_AndOrSemantics ==
    (mresult.kind = "out" /\ mcall.kind = "event.Match") =>
        /\ mcall.m.type = "event.And" =>
              (mresult.out = "true" <=> \A i \in 1..Len(mcall.m.kids) : KidMatches(i))
        /\ mcall.m.type = "event.Or" =>
              (mresult.out = "true" <=> \E i \in 1..Len(mcall.m.kids) : KidMatches(i))

EventMatches(e) == event_Match(mcall.m, e) = "true"

\* C9: FindEvent returns, as a non-nil list, exactly the events of its input
\* on which the matcher's test is true, in input order and with their
\* multiplicity.
C9_FindEventFilters ==
    mresult.kind = "found" =>
        /\ ~mresult.panic
        /\ mresult.val = [isNil |-> FALSE,
                          elems |-> SelectSeq(mcall.evs, EventMatches)]

\* C10: AddLabel matches an event exactly when its type tag is "labeled",
\* whatever its label, and matches no comment or review comment.
C10_AddLabelExactlyLabeled ==
    (mresult.kind = "out" /\ mcall.m.type \in {"AddLabel", "event.AddLabel"}) =>
        (mresult.out = "true" <=> /\ OnEvent
                                  /\ mcall.rec # None
                                  /\ mcall.rec[1].Event = Some("labeled"))

====
